---- MODULE Spec2Model ----
(***************************************************************************)
(* Model of the Wallet session of sol-wallet-adapter (src/src/index.js):   *)
(* the connection state, the table of response promises, the admission of  *)
(* inbound messages and the host-facing operations.                        *)
(*                                                                         *)
(* One step of the model is one piece of the page's event loop run to      *)
(* completion: a host call, the listener run on one posted message, the    *)
(* continuation of disconnect() after its awaited request (a microtask,    *)
(* which runs as soon as the listener that resolved the request returns).  *)
(* Besides the session's fields the state holds what the task in progress  *)
(* has put out: the error it raised, the events it emitted, the            *)
(* continuations it invoked and the requests it posted.                    *)
(***************************************************************************)
EXTENDS Integers, Sequences, FiniteSets

\* ------------------------------------------------------------------ bounds
MaxRequests == 3      \* request ids the model lets the session allocate

\* --------------------------------------------------------------- constants
Null == "null"
PublicKeys == {"A", "B"}                 \* decoded identities
RequestIds == 1..MaxRequests

\* Values a response may carry in `result` / `error`.
\* "absent": the field is missing; "falsy"/"empty": present but falsy in JS.
ResultValues == {"absent", "r1", "falsy"}
ErrorValues == {"absent", "e1", "empty"}
WalletDisconnected == "Wallet disconnected"

VARIABLES
  injectedProvider,   \* TRUE: this._injectedProvider is set; FALSE: this._providerUrl is set
  isUIWebView,        \* outcome of the user-agent test in _handleConnect
  publicKey,          \* this._publicKey
  autoApprove,        \* this._autoApprove
  popup,              \* this._popup: Null, "open" or "closed" (the reference is kept)
  handlerAdded,       \* this._handlerAdded
  listeners,          \* receivers on which _handleMessage / disconnect are registered
  nextRequestId,      \* this._nextRequestId
  responsePromises,   \* keys of this._responsePromises
  promise,            \* per request id, the promise _sendRequest returned:
                      \* "none" (not created), "pending" or "settled"
  awaited,            \* ids of the requests a disconnect() call awaits
  connecting,         \* TRUE: promises of connect() wait in once('connect', resolve)
  surplus,            \* 'connect' events emitted so far minus 'disconnect' events
  issuedAtDisconnect, \* the last id issued when the latest disconnect transition ended
  delivered,          \* the id of the last request handed to a transport (0: none yet)
  raised,             \* the task in progress: the error it raised ("none" if none)
  emitted,            \* ... the events it emitted, in order
  invoked,            \* ... the continuations (resolve / reject) it invoked
  posted,             \* ... the requests it handed to postMessage, in order
  inbox,              \* the message events posted and not yet dispatched (at most one)
  resuming            \* TRUE: the rest of disconnect() is queued as a microtask

vars == <<injectedProvider, isUIWebView, publicKey, autoApprove, popup, handlerAdded,
          listeners, nextRequestId, responsePromises, promise, awaited, connecting,
          surplus, issuedAtDisconnect, delivered, raised, emitted, invoked, posted, inbox, resuming>>

\* The session as a task finds it, as one record, so that handlers compose as
\* in the code.
Session ==
  [publicKey |-> publicKey, autoApprove |-> autoApprove, popup |-> popup,
   handlerAdded |-> handlerAdded, listeners |-> listeners,
   nextRequestId |-> nextRequestId, responsePromises |-> responsePromises,
   promise |-> promise, awaited |-> awaited, connecting |-> connecting,
   surplus |-> surplus, issuedAtDisconnect |-> issuedAtDisconnect,
   delivered |-> delivered,
   raised |-> "none", emitted |-> <<>>, invoked |-> {}, posted |-> <<>>]

Becomes(s) ==
  /\ publicKey' = s.publicKey
  /\ autoApprove' = s.autoApprove
  /\ popup' = s.popup
  /\ handlerAdded' = s.handlerAdded
  /\ listeners' = s.listeners
  /\ nextRequestId' = s.nextRequestId
  /\ responsePromises' = s.responsePromises
  /\ promise' = s.promise
  /\ awaited' = s.awaited
  /\ connecting' = s.connecting
  /\ surplus' = s.surplus
  /\ issuedAtDisconnect' = s.issuedAtDisconnect
  /\ delivered' = s.delivered
  /\ raised' = s.raised
  /\ emitted' = s.emitted
  /\ invoked' = s.invoked
  /\ posted' = s.posted
  /\ UNCHANGED <<injectedProvider, isUIWebView>>

Throw(s, err) == [s EXCEPT !.raised = err]

\* ------------------------------------------------------------ promises
\* Invoking a continuation: only the first invocation settles the promise.
Invoke(s, id, call, value) ==
  [s EXCEPT !.promise[id] = IF @ = "pending" THEN "settled" ELSE @,
            !.invoked = @ \cup {[id |-> id, call |-> call, value |-> value]}]

\* An emitted event, with the identity its listeners find in this._publicKey
\* (for 'connect' it is also the event's argument). A 'connect' event runs
\* and removes the once-listeners: the waiting connect() promises resolve.
emit(s, name) ==
  [s EXCEPT !.emitted = Append(@, [name |-> name, key |-> s.publicKey]),
            !.surplus = IF name = "connect" THEN @ + 1 ELSE @ - 1,
            !.connecting = IF name = "connect" THEN FALSE ELSE @]

connected(s) == s.publicKey # Null

\* ------------------------------------------------------------ _sendRequest
\* The request handed to the transport: the injected provider gets the
\* network merged into params; `registered` tells whether the entry was in
\* the table when the request was handed over.
postMessage(s, id, method) ==
  [s EXCEPT !.posted = Append(@, [id |-> id, method |-> method,
                                  to |-> IF injectedProvider THEN "injected" ELSE "popup",
                                  network |-> injectedProvider,
                                  registered |-> id \in s.responsePromises]),
            !.delivered = id]

_sendRequest_unchecked(s, method) ==
  LET requestId == s.nextRequestId
      s1 == [s EXCEPT !.nextRequestId = @ + 1]
      s2 == [s1 EXCEPT !.responsePromises = @ \cup {requestId},
                       !.promise[requestId] = "pending"]
  IN postMessage(s2, requestId, method)

_sendRequest_postsFirst(s, method) ==
  IF method # "connect" /\ ~connected(s)
  THEN Throw(s, "NotConnected")
  ELSE LET requestId == s.nextRequestId
           s1 == postMessage([s EXCEPT !.nextRequestId = @ + 1], requestId, method)
       IN [s1 EXCEPT !.responsePromises = @ \cup {requestId},
                     !.promise[requestId] = "pending"]

_sendRequest_reusesId(s, method) ==
  IF method # "connect" /\ ~connected(s)
  THEN Throw(s, "NotConnected")
  ELSE LET requestId == IF s.nextRequestId > 1 THEN s.nextRequestId - 1 ELSE 1
           s1 == [s EXCEPT !.nextRequestId = IF @ = 1 THEN 2 ELSE @]
           s2 == [s1 EXCEPT !.responsePromises = @ \cup {requestId},
                            !.promise[requestId] = "pending"]
       IN postMessage(s2, requestId, method)

_sendRequest(s, method) ==
  IF method # "connect" /\ ~connected(s)
  THEN Throw(s, "NotConnected")
  ELSE LET requestId == s.nextRequestId
           s1 == [s EXCEPT !.nextRequestId = @ + 1]
           s2 == [s1 EXCEPT !.responsePromises = @ \cup {requestId},
                            !.promise[requestId] = "pending"]
       IN postMessage(s2, requestId, method)

\* ------------------------------------------------------------ connect
receiver == IF isUIWebView THEN "window" ELSE "document"

_handleConnect_awaitsReply(s) ==
  LET s1 == IF ~s.handlerAdded
            THEN [s EXCEPT !.handlerAdded = TRUE, !.listeners = @ \cup {receiver}]
            ELSE s
  IN IF injectedProvider
     THEN [_sendRequest(s1, "connect") EXCEPT !.connecting = TRUE]
     ELSE [s1 EXCEPT !.popup = "open", !.connecting = TRUE]

_handleConnect(s) ==
  LET s1 == IF ~s.handlerAdded
            THEN [s EXCEPT !.handlerAdded = TRUE, !.listeners = @ \cup {receiver}]
            ELSE s
  IN IF injectedProvider
     THEN _sendRequest(s1, "connect")
     ELSE [s1 EXCEPT !.popup = "open", !.connecting = TRUE]

close(s) == IF s.popup # Null THEN [s EXCEPT !.popup = "closed"] ELSE s

connect(s) == _handleConnect(close(s))

\* ------------------------------------------------------------ disconnect
sweep_keepsEntries(s) ==
  LET ids == s.responsePromises
  IN [s EXCEPT !.promise = [id \in RequestIds |->
                              IF id \in ids /\ @[id] = "pending" THEN "settled" ELSE @[id]],
               !.invoked = @ \cup {[id |-> id, call |-> "reject",
                                    value |-> WalletDisconnected] : id \in ids}]

\* this._responsePromises.forEach: every entry is deleted and its reject invoked.
sweep(s) ==
  LET ids == s.responsePromises
  IN [s EXCEPT !.responsePromises = {},
               !.promise = [id \in RequestIds |->
                              IF id \in ids /\ @[id] = "pending" THEN "settled" ELSE @[id]],
               !.invoked = @ \cup {[id |-> id, call |-> "reject",
                                    value |-> WalletDisconnected] : id \in ids}]

\* The transition from Connected ends with the sweep.
ended(s) == [s EXCEPT !.issuedAtDisconnect = s.nextRequestId - 1]

_handleDisconnect_alwaysEmits(s, reenter) ==
  LET s1 == IF s.handlerAdded
            THEN [s EXCEPT !.handlerAdded = FALSE, !.listeners = @ \ {"window"}]
            ELSE s
      e == emit([s1 EXCEPT !.publicKey = Null], "disconnect")
  IN sweep(IF reenter THEN connect(e) ELSE e)

\* reenter: the host's 'disconnect' listener calls connect() while the event is emitted.
_handleDisconnect(s, reenter) ==
  LET s1 == IF s.handlerAdded
            THEN [s EXCEPT !.handlerAdded = FALSE, !.listeners = @ \ {"window"}]
            ELSE s
      s2 == IF s1.publicKey # Null
            THEN LET e == emit([s1 EXCEPT !.publicKey = Null], "disconnect")
                 IN IF reenter THEN connect(e) ELSE e
            ELSE s1
  IN IF s1.publicKey # Null THEN ended(sweep(s2)) ELSE sweep(s2)

\* The part of disconnect() after the awaited request (all of it for a popup).
disconnectTail(s, reenter) == _handleDisconnect(close(s), reenter)

\* `await this._sendRequest('disconnect', {})`: the call stops at the await.
disconnect(s, reenter) ==
  IF injectedProvider
  THEN LET s1 == _sendRequest(s, "disconnect")
       IN IF s1.raised = "none" THEN [s1 EXCEPT !.awaited = @ \cup {s.nextRequestId}] ELSE s1
  ELSE disconnectTail(s, reenter)

\* ------------------------------------------------------------ inbound messages
\* The payload a message carries once it is a structured value.
Body(isRN, method, key, aa, id, result, error) ==
  [kind |-> "record", isRN |-> isRN, method |-> method, key |-> key,
   autoApprove |-> aa, id |-> id, result |-> result, error |-> error]

EmptyBody(isRN) == Body(isRN, "none", "A", FALSE, 1, "absent", "absent")
NullBody == [EmptyBody(FALSE) EXCEPT !.kind = "null"]
StringData == [EmptyBody(FALSE) EXCEPT !.kind = "string"]

Connected(isRN, key, aa) == Body(isRN, "connected", key, aa, 1, "absent", "absent")
Disconnected(isRN) == Body(isRN, "disconnected", "A", FALSE, 1, "absent", "absent")
Response(isRN, id, result, error) == Body(isRN, "none", "A", FALSE, id, result, error)

Payloads ==
  {<<r, "absent">> : r \in ResultValues \ {"absent"}}
  \cup {<<"absent", err>> : err \in ErrorValues \ {"absent"}}

\* Every protocol message.
Bodies(isRN) ==
  {Connected(isRN, k, aa) : k \in PublicKeys, aa \in BOOLEAN}
  \cup {Connected(isRN, "bad", FALSE), Disconnected(isRN), EmptyBody(isRN)}
  \cup {Response(isRN, id, p[1], p[2]) : id \in RequestIds, p \in Payloads}

\* One message of each kind.
SampleBodies(isRN) ==
  {Connected(isRN, "A", TRUE), Disconnected(isRN),
   Response(isRN, 1, "r1", "absent"), Response(isRN, 1, "absent", "e1")}

\* Who posts a message: e.source and e.origin.
Senders ==
  {[source |-> "window", origin |-> "host"],       \* the host page itself
   [source |-> "popup", origin |-> "provider"],    \* the popup, on the provider's origin
   [source |-> "popup", origin |-> "other"],       \* the popup, navigated elsewhere
   [source |-> "other", origin |-> "provider"],    \* another window of the provider
   [source |-> "other", origin |-> "other"]}       \* any other window

\* The senders the protocol expects: the injected provider answers through the
\* host window, the popup answers from the provider's origin.
Counterparts == {s \in Senders : s.source = "window" \/ (s.source = "popup" /\ s.origin = "provider")}

\* e.data as posted: the structured value itself ("object"), its JSON text
\* ("json"), or text that is not JSON ("text").
Message(enc, body, sender) ==
  [enc |-> enc, body |-> body, origin |-> sender.origin, source |-> sender.source]

\* Every protocol message from a counterpart and, as the embedded web view
\* posts it (JSON text tagged isRN), from anywhere; one message of each kind
\* in every encoding and tagging from every sender; null and text that is
\* not JSON from every sender.
MessageEvents ==
  {Message("object", b, s) : b \in Bodies(FALSE), s \in Counterparts}
  \cup {Message("json", b, s) : b \in Bodies(TRUE),
                                s \in {x \in Senders : x.source = "other" /\ x.origin = "other"}}
  \cup {Message(enc, b, s) : enc \in {"object", "json"},
                             b \in SampleBodies(TRUE) \cup SampleBodies(FALSE) \cup {NullBody},
                             s \in Senders}
  \cup {Message("text", NullBody, s) : s \in Senders}

\* typeof e.data === 'string': JSON.parse, and the text is kept when it fails.
parse(e) ==
  CASE e.enc = "object" -> e.body
    [] e.enc = "json" -> e.body
    [] OTHER -> StringData

Truthy(v) == v \notin {"absent", "falsy", "empty"}

\* An admitted `connected` notification.
onConnected_alwaysAdopts(s, data, reenter) ==
  emit([s EXCEPT !.publicKey = data.key, !.autoApprove = data.autoApprove], "connect")

onConnected_keepsPending(s, data, reenter) ==
  IF s.publicKey = Null \/ s.publicKey # data.key
  THEN LET s1 == IF s.publicKey # Null THEN emit([s EXCEPT !.publicKey = Null], "disconnect")
                 ELSE s
       IN emit([s1 EXCEPT !.publicKey = data.key, !.autoApprove = data.autoApprove],
               "connect")
  ELSE s

onConnected(s, data, reenter) ==
  IF data.key = "bad" THEN Throw(s, "InvalidPublicKey")    \* new PublicKey(...) throws
  ELSE IF s.publicKey = Null \/ s.publicKey # data.key
  THEN LET s1 == IF s.publicKey # Null /\ s.publicKey # data.key
                 THEN _handleDisconnect(s, reenter) ELSE s
       IN emit([s1 EXCEPT !.publicKey = data.key, !.autoApprove = data.autoApprove],
               "connect")
  ELSE s

\* An admitted message that is no notification.
onResponse(s, data) ==
  IF Truthy(data.result) \/ Truthy(data.error)
  THEN IF data.id \in s.responsePromises
       THEN IF Truthy(data.result)
            THEN Invoke(s, data.id, "resolve", data.result)
            ELSE Invoke(s, data.id, "reject", data.error)
       ELSE s
  ELSE s

\* The body of the `if` of _handleMessage, for admitted data.
dispatch(s, data, reenter) ==
  IF data.kind # "record" THEN s     \* a string has no method, result or error
  ELSE IF data.method = "connected" THEN onConnected(s, data, reenter)
  ELSE IF data.method = "disconnected" THEN _handleDisconnect(s, reenter)
  ELSE onResponse(s, data)

\* The condition of the `if` of _handleMessage, evaluated left to right as ||
\* does: "admit", "drop", or the TypeError a property access raises.
admission_anyOrigin(e) ==
  LET data == parse(e)
  IN IF data.kind = "null" THEN "TypeError"
     ELSE IF (data.kind = "record" /\ data.isRN) \/ (injectedProvider /\ e.source = "window")
     THEN "admit"
     ELSE IF injectedProvider THEN "TypeError"
     ELSE IF e.source = "popup" THEN "admit"
     ELSE "drop"

admission(e) ==
  LET data == parse(e)
  IN IF data.kind = "null" THEN "TypeError"      \* typeof null === 'object'; null.isRN
     ELSE IF (data.kind = "record" /\ data.isRN) \/ (injectedProvider /\ e.source = "window")
     THEN "admit"
     ELSE IF injectedProvider THEN "TypeError"   \* this._providerUrl is undefined
     ELSE IF e.origin = "provider" /\ e.source = "popup" THEN "admit"
     ELSE "drop"

_handleMessage(s, e, reenter) ==
  CASE admission(e) = "admit" -> dispatch(s, parse(e), reenter)
    [] admission(e) = "TypeError" -> Throw(s, "TypeError")
    [] OTHER -> s

\* disconnect() awaits its 'disconnect' request: when the listener resolves
\* that promise, the rest of disconnect() is queued and runs as soon as the
\* listener returns.
resumesDisconnect(s, s1) ==
  \E id \in s.awaited :
    /\ s.promise[id] = "pending"
    /\ \E r \in s1.invoked : r.id = id /\ r.call = "resolve"

\* ------------------------------------------------------------ actions
Init ==
  /\ injectedProvider \in BOOLEAN
  /\ isUIWebView \in BOOLEAN
  /\ publicKey = Null
  /\ autoApprove = FALSE
  /\ popup = Null
  /\ handlerAdded = FALSE
  /\ listeners = {}
  /\ nextRequestId = 1
  /\ responsePromises = {}
  /\ promise = [id \in RequestIds |-> "none"]
  /\ awaited = {}
  /\ connecting = FALSE
  /\ surplus = 0
  /\ issuedAtDisconnect = 0
  /\ delivered = 0
  /\ raised = "none"
  /\ emitted = <<>>
  /\ invoked = {}
  /\ posted = <<>>
  /\ inbox = <<>>
  /\ resuming = FALSE

Idle == inbox = <<>> /\ ~resuming
HasId(s) == s.nextRequestId <= MaxRequests

\* The host's 'disconnect' listener may call connect() while the event is
\* emitted; the event is emitted only when the session is connected.
Reentries ==
  {FALSE} \cup (IF connected(Session) /\ (~injectedProvider \/ HasId(Session))
                THEN {TRUE} ELSE {})

Connect ==
  /\ Idle
  /\ injectedProvider => HasId(Session)
  /\ Becomes(connect(Session))
  /\ UNCHANGED <<inbox, resuming>>

Disconnect ==
  /\ Idle
  /\ (injectedProvider /\ connected(Session)) => HasId(Session)
  /\ \E reenter \in Reentries : Becomes(disconnect(Session, reenter))
  /\ UNCHANGED <<inbox, resuming>>

\* receiver.addEventListener('beforeunload', this.disconnect)
BeforeUnload ==
  /\ Idle
  /\ listeners # {}
  /\ (injectedProvider /\ connected(Session)) => HasId(Session)
  /\ \E reenter \in Reentries : Becomes(disconnect(Session, reenter))
  /\ UNCHANGED <<inbox, resuming>>

sign(s, isBytes) ==
  IF ~isBytes THEN Throw(s, "InvalidArgument") ELSE _sendRequest(s, "sign")

Sign ==
  /\ Idle
  /\ \E isBytes \in BOOLEAN :
       /\ (isBytes /\ connected(Session)) => HasId(Session)
       /\ Becomes(sign(Session, isBytes))
  /\ UNCHANGED <<inbox, resuming>>

\* The environment posts a message to a receiver the listener is registered
\* on: a new task begins, and the next step runs the listener on the message.
Post ==
  /\ Idle
  /\ listeners # {}
  /\ \E e \in MessageEvents :
       /\ e.source = "popup" => popup # Null
       /\ inbox' = <<e>>
  /\ raised' = "none" /\ emitted' = <<>> /\ invoked' = {} /\ posted' = <<>>
  /\ UNCHANGED <<injectedProvider, isUIWebView, publicKey, autoApprove, popup,
                 handlerAdded, listeners, nextRequestId, responsePromises, promise,
                 awaited, connecting, surplus, issuedAtDisconnect, delivered, resuming>>

\* The listener runs on the posted message.
Receive ==
  /\ inbox # <<>>
  /\ \E reenter \in Reentries :
       LET s1 == _handleMessage(Session, Head(inbox), reenter)
       IN /\ Becomes(s1)
          /\ resuming' = resumesDisconnect(Session, s1)
  /\ inbox' = Tail(inbox)

\* The microtask: disconnect() continues after its awaited request resolved.
Resume ==
  /\ resuming
  /\ \E reenter \in Reentries : Becomes(disconnectTail(Session, reenter))
  /\ resuming' = FALSE
  /\ UNCHANGED inbox

Next == Connect \/ Disconnect \/ BeforeUnload \/ Sign \/ Post \/ Receive \/ Resume

Spec == Init /\ [][Next]_vars

\* ==================================================================
\* Vocabulary of the properties
\* ==================================================================
\* The message the listener is about to handle, and the step that handles it.
msg == Head(inbox)
Receives == inbox # <<>> /\ inbox' = <<>>

\* Requests issued and not yet settled.
Outstanding == {id \in RequestIds : promise[id] = "pending"}

\* The admission conditions as the specification states them: a structured
\* payload that is tagged isRN, or comes from the host window (injected
\* provider), or comes from the held popup on the provider's origin.
SpecAdmits(e) ==
  /\ parse(e).kind = "record"
  /\ \/ parse(e).isRN
     \/ injectedProvider /\ e.source = "window"
     \/ ~injectedProvider /\ e.origin = "provider" /\ e.source = "popup"

DisconnectedNotification(e) == SpecAdmits(e) /\ parse(e).method = "disconnected"
ConnectedNotification(e, key) ==
  SpecAdmits(e) /\ parse(e).method = "connected" /\ parse(e).key = key

Rejection(id) == [id |-> id, call |-> "reject", value |-> WalletDisconnected]
Count(evs, name) == Cardinality({i \in 1..Len(evs) : evs[i].name = name})

\* The session's fields.
sessionVars ==
  <<publicKey, autoApprove, popup, handlerAdded, listeners, nextRequestId,
    responsePromises, promise, awaited, connecting>>

\* ==================================================================
\* C1: every disconnect trigger (a disconnect() call, an admitted
\* `disconnected` notification, the page's beforeunload) rejects exactly the
\* requests outstanding when it occurs, each with 'Wallet disconnected', and
\* leaves the table of pending requests empty.
\* ==================================================================
DisconnectTrigger ==
  Disconnect \/ BeforeUnload \/ (Receives /\ DisconnectedNotification(msg))

C1_TriggerRejectsOutstanding ==
  [][DisconnectTrigger =>
       /\ responsePromises' = {}
       /\ invoked' = {Rejection(id) : id \in Outstanding}]_vars

\* ==================================================================
\* C2: every disconnect() call ends with the session Disconnected: identity
\* null, popup closed, pending table swept, whatever becomes of the
\* `disconnect` request of the injected transport.
\* ==================================================================
C2_DisconnectTearsDown ==
  [][Disconnect =>
       /\ publicKey' = Null
       /\ popup' # "open"
       /\ responsePromises' = {}]_vars

\* ==================================================================
\* C3: an admitted response settles the outstanding request whose id it
\* carries, with its result or with its error, and leaves every other
\* request as it was.
\* ==================================================================
IsResponse(e) ==
  parse(e).method = "none" /\ (parse(e).result # "absent" \/ parse(e).error # "absent")

Settlement(e) ==
  IF parse(e).result # "absent"
  THEN [id |-> parse(e).id, call |-> "resolve", value |-> parse(e).result]
  ELSE [id |-> parse(e).id, call |-> "reject", value |-> parse(e).error]

C3_ResponseSettlesItsRequest ==
  [][(Receives /\ SpecAdmits(msg) /\ IsResponse(msg) /\ parse(msg).id \in Outstanding) =>
       /\ invoked' = {Settlement(msg)}
       /\ promise' = [promise EXCEPT ![parse(msg).id] = "settled"]]_vars

\* ==================================================================
\* C4: the continuations of a request id are invoked at most once in all:
\* neither a duplicate response nor a later sweep reaches a request that a
\* response has settled.
\* ==================================================================
C4_SettledAtMostOnce ==
  [][\A r \in invoked' : promise[r.id] # "settled"]_vars

\* ==================================================================
\* C5: with a popup transport, a message whose origin is not the provider's
\* changes neither the connection state nor any pending request, whatever
\* else it carries.
\* ==================================================================
NoEffectOnSession ==
  /\ UNCHANGED <<publicKey, autoApprove, responsePromises, promise>>
  /\ emitted' = <<>>
  /\ invoked' = {}

C5_ForeignOriginHasNoEffect ==
  [][(Receives /\ ~injectedProvider /\ msg.origin # "provider") => NoEffectOnSession]_vars

\* C5 as amended: ... unless its payload is tagged isRN.
Tagged(e) == parse(e).kind = "record" /\ parse(e).isRN

C5_UntaggedForeignOriginHasNoEffect ==
  [][(Receives /\ ~injectedProvider /\ msg.origin # "provider" /\ ~Tagged(msg))
       => NoEffectOnSession]_vars

\* A well-formed `connected` notification with a new identity, from the held
\* popup on a foreign origin, is about to be handled while a request is
\* outstanding.
C5_Witness ==
  /\ inbox # <<>>
  /\ ~injectedProvider
  /\ msg.origin = "other" /\ msg.source = "popup"
  /\ ~Tagged(msg)
  /\ parse(msg).kind = "record" /\ parse(msg).method = "connected"
  /\ publicKey \in PublicKeys /\ publicKey # parse(msg).key
  /\ Outstanding # {}

\* ==================================================================
\* C6: handling a message that fails the admission conditions changes no
\* session state, emits no event and raises no error.
\* ==================================================================
C6_RejectedMessageIsSilent ==
  [][(Receives /\ ~SpecAdmits(msg)) =>
       /\ UNCHANGED sessionVars
       /\ emitted' = <<>>
       /\ raised' = "none"]_vars

\* ==================================================================
\* C7: connected as A, an admitted `connected` notification carrying another
\* identity B emits 'disconnect' and then at once 'connect' with B; the
\* session is Disconnected when the first is emitted and Connected(B) at the
\* second, and the requests pending under A are rejected.
\* ==================================================================
IdentityChange(a, b) ==
  Receives /\ publicKey = a /\ ConnectedNotification(msg, b)

C7_IdentityChangeDisconnectsThenConnects ==
  [][\A a, b \in PublicKeys :
       (a # b /\ IdentityChange(a, b)) =>
         /\ emitted' = <<[name |-> "disconnect", key |-> Null],
                         [name |-> "connect", key |-> b]>>
         /\ publicKey' = b
         /\ \A id \in Outstanding : Rejection(id) \in invoked' /\ promise'[id] = "settled"]_vars

\* The identity has just changed: the two events were emitted in that order
\* and a request that was pending under the first identity was rejected.
C7_Witness ==
  /\ Len(emitted) = 2
  /\ emitted[1].name = "disconnect" /\ emitted[2].name = "connect"
  /\ publicKey = emitted[2].key
  /\ \E id \in RequestIds : promise[id] = "settled" /\ Rejection(id) \in invoked

\* ==================================================================
\* C8: connected as A, connect() calls and admitted `connected`
\* notifications carrying A emit no event and leave the identity A.
\* ==================================================================
C8_SameIdentityIsIdempotent ==
  [][\A a \in PublicKeys :
       (publicKey = a /\ (Connect \/ (Receives /\ ConnectedNotification(msg, a)))) =>
         (emitted' = <<>> /\ publicKey' = a /\ surplus' = surplus)]_vars

\* A `connected` notification with the current identity and another
\* auto-approve hint is about to be handled.
C8_Witness ==
  /\ inbox # <<>>
  /\ publicKey \in PublicKeys
  /\ ConnectedNotification(msg, publicKey)
  /\ parse(msg).autoApprove # autoApprove
  /\ handlerAdded

\* ==================================================================
\* C9: a request other than `connect` issued while Disconnected fails with
\* NotConnected and does nothing else: nothing is sent, no id is allocated,
\* no entry is added to the table.
\* ==================================================================
RequestCall ==
  /\ Idle
  /\ \/ Becomes(sign(Session, TRUE))
     \/ injectedProvider /\ \E reenter \in Reentries : Becomes(disconnect(Session, reenter))
  /\ UNCHANGED <<inbox, resuming>>

C9_RequestWhileDisconnectedFails ==
  [][(publicKey = Null /\ RequestCall) =>
       /\ raised' = "NotConnected"
       /\ posted' = <<>>
       /\ UNCHANGED sessionVars]_vars

\* The call has just failed on a session that has allocated ids before and
\* still holds a pending request.
C9_Witness ==
  /\ raised = "NotConnected"
  /\ publicKey = Null
  /\ nextRequestId > 1
  /\ responsePromises # {}

\* ==================================================================
\* C10: 'disconnect' is emitted once for each transition from Connected to
\* Disconnected and never while Disconnected; there are never more
\* 'disconnect' than 'connect' events, and the identity is null after every
\* disconnect transition.
\* ==================================================================
LeavesConnected ==
  publicKey # Null /\ (publicKey' # publicKey \/ Count(emitted', "connect") > 0)

C10_DisconnectOncePerTransition ==
  /\ [](surplus >= 0)
  /\ [][/\ Count(emitted', "disconnect") = (IF LeavesConnected THEN 1 ELSE 0)
        /\ \A i \in 1..Len(emitted') :
             emitted'[i].name = "disconnect" => emitted'[i].key = Null
        /\ (emitted' # <<>> /\ emitted'[Len(emitted')].name = "disconnect")
             => publicKey' = Null]_vars

\* A disconnect transition has just happened, for the second time at least,
\* while a request was pending.
C10_Witness ==
  /\ emitted = <<[name |-> "disconnect", key |-> Null]>>
  /\ publicKey = Null
  /\ surplus = 0
  /\ nextRequestId > 2
  /\ \E id \in RequestIds : Rejection(id) \in invoked

\* ==================================================================
\* C11: with a popup transport, the promise of every connect() call resolves
\* when the first admitted `connected` notification from the newly opened
\* popup has been handled, the session is Connected when it resolves, and
\* it never resolves before such a notification.
\* ==================================================================
FromOpenPopup(e) ==
  /\ popup = "open" /\ e.source = "popup"
  /\ \E k \in PublicKeys : ConnectedNotification(e, k)

C11_ConnectResolvesOnNotification ==
  /\ [][(~injectedProvider /\ connecting /\ Receives /\ FromOpenPopup(msg))
          => (~connecting' /\ publicKey' # Null)]_vars
  /\ [][(~injectedProvider /\ connecting /\ ~connecting')
          => (Receives /\ FromOpenPopup(msg) /\ publicKey' # Null)]_vars

\* ==================================================================
\* C12: request ids start at 1 and strictly increase in allocation order,
\* across disconnects and reconnects: no id is issued twice, no id re-enters
\* the table after its removal.
\* ==================================================================
Issued == 1..(nextRequestId - 1)
PostedIds(p) == [i \in 1..Len(p) |-> p[i].id]
Fresh(from, to) == [i \in 1..(to - from) |-> from + i - 1]

C12_IdsStrictlyIncrease ==
  /\ [](/\ nextRequestId >= 1
        /\ responsePromises \subseteq Issued
        /\ \A id \in RequestIds : promise[id] # "none" <=> id \in Issued)
  /\ [][/\ nextRequestId' >= nextRequestId
        /\ PostedIds(posted') = Fresh(nextRequestId, nextRequestId')
        /\ responsePromises' \ responsePromises
             \subseteq {id \in RequestIds : nextRequestId <= id /\ id < nextRequestId'}]_vars

\* After a disconnect that removed request 1 the session is connected again
\* and holds a request issued since.
C12_Witness ==
  /\ publicKey # Null
  /\ promise[1] = "settled" /\ 1 \notin responsePromises
  /\ \E id \in responsePromises : id > 1 /\ promise[id] = "pending"
  /\ surplus = 1 /\ nextRequestId > 2

\* ==================================================================
\* C13: no request is resolved after a disconnect: once a disconnect
\* transition has ended, an admitted response carrying the id of a request
\* issued before it is discarded with no effect, also after a reconnect.
\* ==================================================================
C13_StaleResponseDiscarded ==
  [][(Receives /\ SpecAdmits(msg) /\ IsResponse(msg)
        /\ parse(msg).id <= issuedAtDisconnect) =>
       /\ UNCHANGED sessionVars
       /\ emitted' = <<>> /\ invoked' = {} /\ raised' = "none"]_vars

\* Reconnected after a disconnect, with a new request pending, the session
\* is about to handle a well-formed response to a request issued before the
\* disconnect.
C13_Witness ==
  /\ inbox # <<>>
  /\ SpecAdmits(msg) /\ IsResponse(msg) /\ Truthy(parse(msg).result)
  /\ parse(msg).id <= issuedAtDisconnect
  /\ publicKey # Null
  /\ Outstanding # {}

\* ==================================================================
\* C14: in every reachable state the table of pending requests holds exactly
\* the ids issued and not yet settled: a request settled by a response is no
\* longer in the table.
\* ==================================================================
C14_TableIsOutstanding == responsePromises = Outstanding

\* ==================================================================
\* C15: whenever the session is Connected or a request is pending, the
\* message listener is installed; in particular it still is after an
\* identity change leaves the session Connected.
\* ==================================================================
ListenerInstalled == handlerAdded /\ receiver \in listeners

C15_ListenerWhileInUse ==
  (publicKey # Null \/ Outstanding # {}) => ListenerInstalled

\* ==================================================================
\* C16: an admitted response whose id matches a live pending request and
\* which carries a result or an error settles that request whatever value
\* the field holds, falsy ones included: resolved with the result when the
\* result is present, rejected with the error when the error is.
\* ==================================================================
Live == responsePromises \cap Outstanding

C16_FalsyPayloadSettles ==
  [][(Receives /\ SpecAdmits(msg) /\ IsResponse(msg) /\ parse(msg).id \in Live) =>
       /\ Settlement(msg) \in invoked'
       /\ promise'[parse(msg).id] = "settled"]_vars

\* ==================================================================
\* C17: with an injected provider, connect() installs the listener, hands
\* exactly one `connect` request carrying the network to the provider and
\* resolves its promise without waiting for a reply and without changing the
\* connection state; the session becomes Connected only when an admitted
\* `connected` notification is handled.
\* ==================================================================
ConnectRequest(id) ==
  [id |-> id, method |-> "connect", to |-> "injected", network |-> TRUE, registered |-> TRUE]

C17_InjectedConnectDispatches ==
  /\ [][(injectedProvider /\ Connect) =>
          /\ ListenerInstalled'
          /\ posted' = <<ConnectRequest(nextRequestId)>>
          /\ ~connecting'
          /\ raised' = "none" /\ emitted' = <<>>
          /\ UNCHANGED <<publicKey, autoApprove>>]_vars
  /\ [][(injectedProvider /\ publicKey = Null /\ publicKey' # Null) =>
          (Receives /\ ConnectedNotification(msg, publicKey'))]_vars

\* connect() has just been called a second time on an injected session that
\* is not connected: both `connect` requests are pending.
C17_Witness ==
  /\ injectedProvider
  /\ Len(posted) = 1 /\ posted[1].method = "connect" /\ posted[1].id = 2
  /\ publicKey = Null
  /\ Outstanding = {1, 2}
  /\ ListenerInstalled

\* ==================================================================
\* C18: requests reach the transport in the order of the calls: the ids
\* handed to the injected provider or the popup are strictly increasing
\* across host calls and inbound messages, and each request is handed over
\* after its entry has been registered.
\* ==================================================================
Previous(p, i) == IF i = 1 THEN delivered ELSE p[i - 1].id

C18_DeliveredInCallOrder ==
  [][\A i \in 1..Len(posted') :
       /\ posted'[i].id > Previous(posted', i)
       /\ posted'[i].registered]_vars

\* A request has just been handed over after an earlier one was answered
\* and another is still pending.
C18_Witness ==
  /\ Len(posted) = 1 /\ posted[1].id = 3 /\ delivered = 3
  /\ promise[1] = "settled" /\ 1 \in responsePromises
  /\ promise[2] = "pending"

\* ==================================================================
\* C19: the sweep of a disconnect transition rejects exactly the requests
\* that were pending when the transition started: a request registered by a
\* host handler while the `disconnect` event is emitted is not rejected by
\* it and is still pending when the transition ends.
\* ==================================================================
DisconnectTransition == publicKey # Null /\ Count(emitted', "disconnect") > 0
SettledByStep == {id \in RequestIds : promise[id] # "settled" /\ promise'[id] = "settled"}
RegisteredByStep == {id \in RequestIds : promise[id] = "none" /\ promise'[id] # "none"}

C19_SweepIsASnapshot ==
  [][DisconnectTransition =>
       /\ SettledByStep = Outstanding
       /\ \A id \in RegisteredByStep :
            promise'[id] = "pending" /\ id \in responsePromises']_vars

\* ==================================================================
\* C20: the listener-installed flag is true exactly when the handler is
\* registered on a receiver, for both receivers: deregistration removes it
\* from the receiver it was added to, so from a disconnect transition to the
\* next connect() no inbound message, admissible or not, changes the
\* session or emits an event.
\* ==================================================================
C20_FlagMatchesRegistration ==
  /\ [](handlerAdded <=> listeners # {})
  /\ [][(~handlerAdded /\ Receives) =>
          (UNCHANGED sessionVars /\ emitted' = <<>> /\ invoked' = {})]_vars

====
